---- MODULE Spec2Model ----
(***************************************************************************)
(* State-machine model of GLWidget (src/src/GLWidget.cpp): the two-pass    *)
(* volume raycasting widget.  Program members keep their source names.     *)
(* The GL server side (framebuffer contents, clear colour, shader          *)
(* uniforms, texture units) is the record gl; frame is the log of the      *)
(* most recent paintGL call.                                               *)
(*                                                                         *)
(* Units.  viewOffset is kept in exact fractions: x and y in sixtieths     *)
(* (the pan step is delta/60.f), z in fortieths (the zoom step is          *)
(* -dy/40.f).  1.8 is 72/40, 0.8 is 32/40, 3.0 is 120/40, 1 is 60/60.      *)
(* Angles are whole degrees (the increments dx, dy are ints).  A colour    *)
(* channel handed to glClearColor is the fraction num/den.                 *)
(***************************************************************************)
EXTENDS Integers, Sequences, FiniteSets, TLC

VARIABLES
    numSamples,             \* int numSamples
    tmpNumSamples,          \* int tmpNumSamples
    sampleRangeStart,       \* float sampleRangeStart
    sampleRangeEnd,         \* float sampleRangeEnd
    technique,              \* techniques technique
    volume,                 \* Volume *volume
    volume3DTex,            \* QOpenGLTexture *volume3DTex: the volume it holds
    transferFunction1DTex,  \* QOpenGLTexture *transferFunction1DTex: its image
    rayVolumeExitPosMapFramebuffer, \* the offscreen target: [w, h]
    size,                   \* this->width(), this->height()
    volumeRotAngleX,
    volumeRotAngleY,
    viewOffset,             \* QVector3D viewOffset: [x, y, z]
    lastMousePos,           \* QPoint lastMousePos: [x, y]
    backgroundColor,        \* QColor backgroundColor: <<r, g, b>>
    gl,                     \* GL server state
    frame,                  \* log of the most recent paintGL
    pressed,                \* a mouse button is held (press seen, no release yet)
    pressN                  \* <<numSamples at the last press>>, <<>> once a setter ran

vars == <<numSamples, tmpNumSamples, sampleRangeStart, sampleRangeEnd, technique,
          volume, volume3DTex, transferFunction1DTex,
          rayVolumeExitPosMapFramebuffer, size, volumeRotAngleX, volumeRotAngleY,
          viewOffset, lastMousePos, backgroundColor, gl, frame, pressed, pressN>>

(***************************************************************************)
(* Bounds of the model and the input sets the events are drawn from.       *)
(***************************************************************************)
NULL == "null"

\* paintGL calls are numbered modulo FrameIds
FrameIds == 2
\* |volumeRotAngleY| is kept within MaxRotY degrees
MaxRotY == 120
\* at most MaxLiveFbos framebuffer objects are allocated and not released
MaxLiveFbos == 3

Volumes == {"A", "B"}
Sizes == {<<2, 1>>, <<1, 2>>}
SampleArgs == {0, 3, 8}
InitSampleCounts == {8}
RangeArgs == {0}
\* sample counts and range bounds the setters are called with under SpecParams;
\* the bounds are doubles that float(...) represents exactly
ParamSamples == {3, 8}
ParamRanges == {0, 1}
Techniques == {"MIP", "ALPHA", "AVERAGE"}
TfFiles == {""}
Mods == {"none", "alt", "ctrl", "altctrl"}
Positions == {[x |-> 0, y |-> 0]}
ViewPositions == {[x |-> 0, y |-> 0], [x |-> 60, y |-> 80]}
HandlerPositions == {[x |-> 0, y |-> 0], [x |-> 90, y |-> 90]}
RotPositions == {[x |-> 0, y |-> 0], [x |-> 30, y |-> 80]}
AspectSizes == {<<2, 1>>, <<1, 2>>, <<3, 2>>, <<4, 2>>, <<2, 3>>}
Channels == {0, 1, 127, 128, 129, 255}

(***************************************************************************)
(* The GL server.  A framebuffer's content is [what, by, pixel]: what was  *)
(* last rendered into it, by which paintGL call, and the 8-bit value of    *)
(* the pixels no triangle covered (the clear value).  The uniforms, the    *)
(* texture units and the matrices a paintGL call sets are kept in its log. *)
(* liveFbos counts the framebuffer objects allocated and not released.     *)
(***************************************************************************)
Garbage == [what |-> "garbage", by |-> -1, pixel |-> <<0, 0, 0>>]
NotRead == [what |-> "none", by |-> -1, pixel |-> <<0, 0, 0>>]

\* glClearColor(red()/256.0f, ...): each channel is the fraction ch/256
ClearColorDenominator == 256

\* A float colour channel num/den stored in an 8-bit normalized framebuffer:
\* clamped to [0,1], scaled by 255 and rounded to nearest.  The one tie the
\* model meets, 127.5, goes to 128 (half up and half to even agree on it).
Unorm8(num, den) ==
    LET n == IF num < 0 THEN 0 ELSE IF num > den THEN den ELSE num
        q == (255 * n) \div den
        r == (255 * n) % den
    IN  IF 2 * r < den THEN q ELSE q + 1

\* A linked program's uniforms before any is set
DefaultUniforms ==
    [screenDimensions |-> <<0, 0>>, numSamples |-> 0, sampleRangeStart |-> 0,
     sampleRangeEnd |-> 0, alphaTech |-> FALSE, avgTech |-> FALSE]

Logged(c, op) == [c EXCEPT !.frame.ops = Append(@, op)]

GlClearColor(c, rgb, den) ==
    Logged([c EXCEPT !.gl.clearColor = [num |-> rgb, den |-> den]], <<"clearColor">>)

ClearedContent(c) ==
    [what  |-> "clear",
     by    |-> c.frame.no,
     pixel |-> [i \in 1..3 |-> Unorm8(c.gl.clearColor.num[i], c.gl.clearColor.den)]]

\* glClear on the framebuffer that is bound
GlClear(c) ==
    IF c.gl.target = "fbo"
    THEN Logged([c EXCEPT !.gl.fboContent = ClearedContent(c)], <<"clear", "fbo">>)
    ELSE Logged([c EXCEPT !.gl.screen = ClearedContent(c)], <<"clear", "default">>)

BindFramebuffer(c, target) ==
    Logged([c EXCEPT !.gl.target = target], <<"bind", target>>)

\* A shader's modelViewProjMat before a draw sets it
IdentityMat ==
    [modelRotX |-> 0, modelRotY |-> 0, eyeZ |-> 0, panX |-> 0, panY |-> 0,
     aspect |-> 0]

\* Mutant of ModelViewProjMat: the aspect is the ratio rounded to the nearest
\* integer
ModelViewProjMat_RoundedAspect(self) ==
    [modelRotX |-> 90 - self.volumeRotAngleX,
     modelRotY |-> self.volumeRotAngleY,
     eyeZ      |-> self.viewOffset.z,
     panX      |-> self.viewOffset.x,
     panY      |-> self.viewOffset.y,
     aspect    |-> (2 * self.size[1] + self.size[2]) \div (2 * self.size[2])]

\* projMat * viewMat * modelMat, kept as the values it is built from
ModelViewProjMat(self) ==
    [modelRotX |-> 90 - self.volumeRotAngleX,
     modelRotY |-> self.volumeRotAngleY,
     eyeZ      |-> self.viewOffset.z,
     panX      |-> self.viewOffset.x,
     panY      |-> self.viewOffset.y,
     aspect    |-> self.size[1] \div self.size[2]]

\* glDrawElements with `shader` bound: the exit-position shader writes exit
\* positions into the bound target; the raycast shader reads the exit-position
\* texture (unit 1) and the volume texture (unit 2), then writes the bound target.
GlDrawElements(c, shader) ==
    LET read == IF shader = "raycast"
                THEN [c EXCEPT !.frame.exitRead = c.gl.fboContent,
                               !.frame.texRead = c.frame.units[3],
                               !.frame.tfRead = c.frame.units[1]]
                ELSE c
        what == IF shader = "raycast" THEN "raycast" ELSE "exit"
    IN  IF c.gl.target = "fbo"
        THEN Logged([read EXCEPT !.gl.fboContent.what = what,
                                 !.gl.fboContent.by = c.frame.no], <<"draw", shader>>)
        ELSE Logged([read EXCEPT !.gl.screen.what = what,
                                 !.gl.screen.by = c.frame.no], <<"draw", shader>>)

drawVolumeBBoxCube(c, self, shader) ==
    LET c1 == GlClear(c)
        c2 == [c1 EXCEPT !.frame.mvp[shader] = ModelViewProjMat(self)]
    IN  GlDrawElements(c2, shader)

TechniqueUniforms(u, t) ==
    IF t = "MIP" THEN [u EXCEPT !.alphaTech = FALSE, !.avgTech = FALSE]
    ELSE IF t = "ALPHA" THEN [u EXCEPT !.alphaTech = TRUE, !.avgTech = FALSE]
    ELSE IF t = "AVERAGE" THEN [u EXCEPT !.alphaTech = FALSE, !.avgTech = TRUE]
    ELSE u

RaycastUniforms(c, self) ==
    [c EXCEPT !.frame.uniforms =
        TechniqueUniforms([@ EXCEPT !.screenDimensions = self.size,
                                    !.numSamples = self.numSamples,
                                    !.sampleRangeStart = self.sampleRangeStart,
                                    !.sampleRangeEnd = self.sampleRangeEnd],
                          self.technique)]

RaycastTextures(c, self) ==
    [c EXCEPT !.frame.units = <<self.transferFunction1DTex, "exitPosMap",
                             self.volume3DTex>>]

\* Mutant of RenderPasses: the raycasting pass is issued before the
\* exit-position pass
RenderPasses_RaycastFirst(c, self) ==
    LET c1 == RaycastTextures(RaycastUniforms(c, self), self)
        c2 == drawVolumeBBoxCube(c1, self, "raycast")
        c3 == BindFramebuffer(c2, "fbo")
        c4 == drawVolumeBBoxCube(c3, self, "exit")
    IN  BindFramebuffer(c4, "default")

\* The exit-position pass, then the raycasting pass
RenderPasses(c, self) ==
    LET c2 == BindFramebuffer(c, "fbo")
        c3 == drawVolumeBBoxCube(c2, self, "exit")
        c4 == BindFramebuffer(c3, "default")
        c5 == RaycastTextures(RaycastUniforms(c4, self), self)
    IN  drawVolumeBBoxCube(c5, self, "raycast")

\* The log a paintGL call starts with
NewFrame(f, self) ==
    [no       |-> (f.no + 1) % FrameIds,
     ops      |-> << >>,
     exitRead |-> NotRead,
     texRead  |-> NULL,
     tfRead   |-> NULL,
     uniforms |-> DefaultUniforms,
     units    |-> <<NULL, NULL, NULL>>,
     mvp      |-> [sh \in {"exit", "raycast"} |-> IdentityMat]]

\* Mutant of paintGL: the null-volume check is missing
paintGL_NoVolumeCheck(self, g, f) ==
    LET c0 == [gl |-> [g EXCEPT !.target = "default"], frame |-> NewFrame(f, self)]
        c1 == GlClearColor(c0, self.backgroundColor, ClearColorDenominator)
    IN  RenderPasses(GlClear(c1), self)

\* paintGL on the widget `self` with GL state g; the host has bound the
\* widget's own framebuffer
paintGL(self, g, f) ==
    LET c0 == [gl |-> [g EXCEPT !.target = "default"], frame |-> NewFrame(f, self)]
        c1 == GlClearColor(c0, self.backgroundColor, ClearColorDenominator)
        c2 == GlClear(c1)
    IN  IF self.volume = NULL THEN c2 ELSE RenderPasses(c2, self)

(***************************************************************************)
(* The widget.                                                             *)
(***************************************************************************)
Self ==
    [numSamples |-> numSamples, sampleRangeStart |-> sampleRangeStart,
     sampleRangeEnd |-> sampleRangeEnd, technique |-> technique,
     volume |-> volume, volume3DTex |-> volume3DTex,
     transferFunction1DTex |-> transferFunction1DTex,
     rayVolumeExitPosMapFramebuffer |-> rayVolumeExitPosMapFramebuffer,
     size |-> size, volumeRotAngleX |-> volumeRotAngleX,
     volumeRotAngleY |-> volumeRotAngleY, viewOffset |-> viewOffset,
     backgroundColor |-> backgroundColor]

\* repaint(): paintGL runs synchronously on the widget as the handler left it
Repaint ==
    LET c == paintGL(Self', gl, frame)
    IN  gl' = c.gl /\ frame' = c.frame

\* Members whose initial values the class declaration sets
HeaderDefaults ==
    [sampleRangeStart |-> 0, sampleRangeEnd |-> 1, technique |-> "MIP",
     volume |-> NULL, volume3DTex |-> NULL,
     volumeRotAngleX |-> 0, volumeRotAngleY |-> 0,
     lastMousePos |-> [x |-> 0, y |-> 0]]

\* QImage(fileName): the image of a readable file, a null image otherwise
ReadableFiles == {"../transferfunctions/tff_flame.png", "ramp.png"}
QImage(fileName) == IF fileName \in ReadableFiles THEN fileName ELSE "nullimage"

\* loadTransferFunction1DTex: a new texture holding the image
loadTransferFunction1DTex(fileName) == QImage(fileName)

\* initRayVolumeExitPosMapFramebuffer / resizeGL: a new framebuffer object
NewFramebuffer(w, h) == [w |-> w, h |-> h]

\* Mutant of loadVolume3DTex: the texture is created for the first volume only
loadVolume3DTex_CreateOnce(v, tex) == IF v = NULL \/ tex /= NULL THEN tex ELSE v

\* loadVolume3DTex: the texture after the call, for volume v and texture tex
loadVolume3DTex(v, tex) == IF v = NULL THEN tex ELSE v

InitGL ==
    [target |-> "default", clearColor |-> [num |-> <<0, 0, 0>>, den |-> 1],
     fboContent |-> Garbage, screen |-> Garbage, liveFbos |-> 1]

\* The widget after construction and initializeGL, on a host showing it at
\* size sz with background bg and sample count n
InitWith(bg, sz, n) ==
    /\ numSamples = n
    /\ tmpNumSamples = n
    /\ sampleRangeStart = HeaderDefaults.sampleRangeStart
    /\ sampleRangeEnd = HeaderDefaults.sampleRangeEnd
    /\ technique = HeaderDefaults.technique
    /\ volume = HeaderDefaults.volume
    /\ volume3DTex = HeaderDefaults.volume3DTex
    /\ transferFunction1DTex =
           loadTransferFunction1DTex("../transferfunctions/tff_flame.png")
    /\ size = sz
    /\ rayVolumeExitPosMapFramebuffer = NewFramebuffer(sz[1], sz[2])
    /\ volumeRotAngleX = HeaderDefaults.volumeRotAngleX
    /\ volumeRotAngleY = HeaderDefaults.volumeRotAngleY
    /\ viewOffset = [x |-> 0, y |-> 0, z |-> 72]
    /\ lastMousePos = HeaderDefaults.lastMousePos
    /\ backgroundColor = bg
    /\ gl = InitGL
    /\ pressed = FALSE
    /\ pressN = << >>
    /\ frame = [NewFrame([no |-> 0], Self) EXCEPT !.no = 0]

Init == \E sz \in Sizes, n \in InitSampleCounts : InitWith(<<0, 0, 0>>, sz, n)

widgetVars == <<numSamples, tmpNumSamples, sampleRangeStart, sampleRangeEnd,
                technique, volume, volume3DTex, transferFunction1DTex,
                rayVolumeExitPosMapFramebuffer, size, volumeRotAngleX,
                volumeRotAngleY, viewOffset, lastMousePos, backgroundColor>>

\* The host calls paintGL (expose, update)
Paint ==
    /\ UNCHANGED <<widgetVars, pressed, pressN>>
    /\ Repaint

\* Mutant of AfterDataLoaded: the texture is uploaded before the new volume is
\* assigned
AfterDataLoaded_UploadFirst(self, volumeData) ==
    [self EXCEPT !.volume = volumeData,
                 !.volume3DTex = loadVolume3DTex(self.volume, @)]

\* The widget self after dataLoaded(volumeData): the volume is assigned, then
\* loadVolume3DTex uploads it
AfterDataLoaded(self, volumeData) ==
    [self EXCEPT !.volume = volumeData,
                 !.volume3DTex = loadVolume3DTex(volumeData, @)]

dataLoaded(volumeData) ==
    /\ volume' = AfterDataLoaded(Self, volumeData).volume
    /\ volume3DTex' = AfterDataLoaded(Self, volumeData).volume3DTex
    /\ UNCHANGED <<numSamples, tmpNumSamples, sampleRangeStart, sampleRangeEnd,
                   technique, transferFunction1DTex, rayVolumeExitPosMapFramebuffer,
                   size, volumeRotAngleX, volumeRotAngleY, viewOffset, lastMousePos,
                   backgroundColor, gl, frame, pressed, pressN>>

\* The number of live framebuffer objects after resizeGL: the new one is
\* allocated and the pointer to the old one is overwritten without a delete
LiveAfterResize(live) == live + 1

\* Mutant of resizeGL: the offscreen target is not recreated
resizeGL_KeepsTarget(w, h) ==
    /\ size' = <<w, h>>
    /\ UNCHANGED <<numSamples, tmpNumSamples, sampleRangeStart, sampleRangeEnd,
                   technique, volume, volume3DTex, transferFunction1DTex,
                   rayVolumeExitPosMapFramebuffer, volumeRotAngleX,
                   volumeRotAngleY, viewOffset, lastMousePos, backgroundColor,
                   gl, frame, pressed, pressN>>

\* The host has resized the widget to w x h and calls resizeGL(w, h)
resizeGL(w, h) ==
    /\ gl.liveFbos < MaxLiveFbos
    /\ size' = <<w, h>>
    /\ rayVolumeExitPosMapFramebuffer' = NewFramebuffer(w, h)
    /\ gl' = [gl EXCEPT !.fboContent = Garbage,
                        !.liveFbos = LiveAfterResize(@)]
    /\ UNCHANGED <<numSamples, tmpNumSamples, sampleRangeStart, sampleRangeEnd,
                   technique, volume, volume3DTex, transferFunction1DTex,
                   volumeRotAngleX, volumeRotAngleY, viewOffset, lastMousePos,
                   backgroundColor, frame, pressed, pressN>>

setNumSamples(n) ==
    /\ numSamples' = n
    /\ pressN' = << >>
    /\ UNCHANGED <<tmpNumSamples, sampleRangeStart, sampleRangeEnd, technique,
                   volume, volume3DTex, transferFunction1DTex,
                   rayVolumeExitPosMapFramebuffer, size, volumeRotAngleX,
                   volumeRotAngleY, viewOffset, lastMousePos, backgroundColor,
                   pressed>>
    /\ Repaint

setSampleRangeStart(v) ==
    /\ sampleRangeStart' = v
    /\ UNCHANGED <<numSamples, tmpNumSamples, sampleRangeEnd, technique,
                   volume, volume3DTex, transferFunction1DTex,
                   rayVolumeExitPosMapFramebuffer, size, volumeRotAngleX,
                   volumeRotAngleY, viewOffset, lastMousePos, backgroundColor,
                   pressed, pressN>>
    /\ Repaint

\* Mutant of setSampleRangeEnd: the value is stored in sampleRangeStart
setSampleRangeEnd_WritesStart(v) ==
    /\ sampleRangeStart' = v
    /\ UNCHANGED <<numSamples, tmpNumSamples, sampleRangeEnd, technique,
                   volume, volume3DTex, transferFunction1DTex,
                   rayVolumeExitPosMapFramebuffer, size, volumeRotAngleX,
                   volumeRotAngleY, viewOffset, lastMousePos, backgroundColor,
                   pressed, pressN>>
    /\ Repaint

setSampleRangeEnd(v) ==
    /\ sampleRangeEnd' = v
    /\ UNCHANGED <<numSamples, tmpNumSamples, sampleRangeStart, technique,
                   volume, volume3DTex, transferFunction1DTex,
                   rayVolumeExitPosMapFramebuffer, size, volumeRotAngleX,
                   volumeRotAngleY, viewOffset, lastMousePos, backgroundColor,
                   pressed, pressN>>
    /\ Repaint

setTechnique(t) ==
    /\ technique' = t
    /\ UNCHANGED <<numSamples, tmpNumSamples, sampleRangeStart, sampleRangeEnd,
                   volume, volume3DTex, transferFunction1DTex,
                   rayVolumeExitPosMapFramebuffer, size, volumeRotAngleX,
                   volumeRotAngleY, viewOffset, lastMousePos, backgroundColor,
                   pressed, pressN>>
    /\ Repaint

\* fileName is what the file dialog returned
loadTransferFunctionImage(fileName) ==
    /\ transferFunction1DTex' = loadTransferFunction1DTex(fileName)
    /\ UNCHANGED <<numSamples, tmpNumSamples, sampleRangeStart, sampleRangeEnd,
                   technique, volume, volume3DTex, rayVolumeExitPosMapFramebuffer,
                   size, volumeRotAngleX, volumeRotAngleY, viewOffset, lastMousePos,
                   backgroundColor, pressed, pressN>>
    /\ Repaint

(***************************************************************************)
(* Pointer input.                                                          *)
(***************************************************************************)
\* this->numSamples > 5 in mousePressEvent
PressFloor == 5
\* this->numSamples = 5 in mouseMoveEvent
LowSamples == 5
\* viewOffset.z limits 0.8f and 3.f, in fortieths
ZoomMin == 32
ZoomMax == 120
\* viewOffset.x, viewOffset.y limit 1, in sixtieths
PanLimit == 60
\* volumeRotAngleX limit, degrees
RotLimit == 90

HasAlt(mods) == mods \in {"alt", "altctrl"}
HasCtrl(mods) == mods \in {"ctrl", "altctrl"}

\* Mutant of ZoomStep: the sign of the step is flipped
ZoomStep_SignFlipped(off, dy) ==
    LET z1 == off.z + dy
        z2 == IF z1 > ZoomMax THEN ZoomMax ELSE z1
        z3 == IF z2 < ZoomMin THEN ZoomMin ELSE z2
    IN  [off EXCEPT !.z = z3]

\* ZOOM: viewOffset += (0, 0, -dy/40.f), then the two limits
ZoomStep(off, dy) ==
    LET z1 == off.z - dy
        z2 == IF z1 > ZoomMax THEN ZoomMax ELSE z1
        z3 == IF z2 < ZoomMin THEN ZoomMin ELSE z2
    IN  [off EXCEPT !.z = z3]

\* Mutant of PanStep: the lower limit of y is missing
PanStep_NoLowerLimitY(off, dx, dy) ==
    LET x1 == off.x + dx
        y1 == off.y - dy
        x2 == IF x1 > PanLimit THEN PanLimit ELSE x1
        x3 == IF x2 < -PanLimit THEN -PanLimit ELSE x2
        y2 == IF y1 > PanLimit THEN PanLimit ELSE y1
    IN  [off EXCEPT !.x = x3, !.y = y2]

\* PAN: viewOffset += (dx, -dy, 0)/60.f, then the four limits
PanStep(off, dx, dy) ==
    LET x1 == off.x + dx
        y1 == off.y - dy
        x2 == IF x1 > PanLimit THEN PanLimit ELSE x1
        x3 == IF x2 < -PanLimit THEN -PanLimit ELSE x2
        y2 == IF y1 > PanLimit THEN PanLimit ELSE y1
        y3 == IF y2 < -PanLimit THEN -PanLimit ELSE y2
    IN  [off EXCEPT !.x = x3, !.y = y3]

\* Mutant of RotateStepX: the upper limit is missing
RotateStepX_NoUpperLimit(angleX, dy) ==
    LET a1 == IF (dy > 0 /\ angleX < RotLimit) \/ (dy < 0 /\ angleX > -RotLimit)
              THEN angleX + dy ELSE angleX
    IN  IF a1 < -RotLimit THEN -RotLimit ELSE a1

\* ROTATE: the guarded increment of volumeRotAngleX, then its two limits
RotateStepX(angleX, dy) ==
    LET a1 == IF (dy > 0 /\ angleX < RotLimit) \/ (dy < 0 /\ angleX > -RotLimit)
              THEN angleX + dy ELSE angleX
        a2 == IF a1 < -RotLimit THEN -RotLimit ELSE a1
    IN  IF a2 > RotLimit THEN RotLimit ELSE a2

RotateStepY(angleY, dx) == angleY + dx

\* Mutant of MoveView: the left-button test is missing
MoveView_IgnoresButton(rotX, rotY, off, dx, dy, left, mods) ==
    IF HasAlt(mods) THEN [rotX |-> rotX, rotY |-> rotY, off |-> ZoomStep(off, dy)]
    ELSE IF HasCtrl(mods)
         THEN [rotX |-> rotX, rotY |-> rotY, off |-> PanStep(off, dx, dy)]
    ELSE [rotX |-> RotateStepX(rotX, dy), rotY |-> RotateStepY(rotY, dx), off |-> off]

\* The view state [rotX, rotY, off] after one mouseMoveEvent
MoveView(rotX, rotY, off, dx, dy, left, mods) ==
    IF ~left THEN [rotX |-> rotX, rotY |-> rotY, off |-> off]
    ELSE IF HasAlt(mods) THEN [rotX |-> rotX, rotY |-> rotY, off |-> ZoomStep(off, dy)]
    ELSE IF HasCtrl(mods)
         THEN [rotX |-> rotX, rotY |-> rotY, off |-> PanStep(off, dx, dy)]
    ELSE [rotX |-> RotateStepX(rotX, dy), rotY |-> RotateStepY(rotY, dx), off |-> off]

\* The sample count mousePressEvent remembers
Remembered(n, tmp) == IF n > PressFloor THEN n ELSE tmp

mousePressEvent(pos) ==
    /\ tmpNumSamples' = Remembered(numSamples, tmpNumSamples)
    /\ lastMousePos' = pos
    /\ pressed' = TRUE
    /\ pressN' = <<numSamples>>
    /\ UNCHANGED <<numSamples, sampleRangeStart, sampleRangeEnd, technique,
                   volume, volume3DTex, transferFunction1DTex,
                   rayVolumeExitPosMapFramebuffer, size, volumeRotAngleX,
                   volumeRotAngleY, viewOffset, backgroundColor, gl, frame>>

\* Move events reach the widget while a button is held (no mouse tracking);
\* left: the left button is among event->buttons()
mouseMoveEvent(pos, left, mods) ==
    LET dx == pos.x - lastMousePos.x
        dy == pos.y - lastMousePos.y
        v  == MoveView(volumeRotAngleX, volumeRotAngleY, viewOffset, dx, dy, left, mods)
    IN  /\ pressed
        /\ v.rotY <= MaxRotY /\ v.rotY >= -MaxRotY
        /\ numSamples' = LowSamples
        /\ volumeRotAngleX' = v.rotX
        /\ volumeRotAngleY' = v.rotY
        /\ viewOffset' = v.off
        /\ lastMousePos' = pos
        /\ UNCHANGED <<tmpNumSamples, sampleRangeStart, sampleRangeEnd, technique,
                       volume, volume3DTex, transferFunction1DTex,
                       rayVolumeExitPosMapFramebuffer, size, backgroundColor,
                       pressed, pressN>>
        /\ Repaint

\* The sample count mouseReleaseEvent sets
Restored(n, tmp) == tmp

mouseReleaseEvent ==
    /\ pressed
    /\ numSamples' = Restored(numSamples, tmpNumSamples)
    /\ pressed' = FALSE
    /\ pressN' = << >>
    /\ UNCHANGED <<tmpNumSamples, sampleRangeStart, sampleRangeEnd, technique,
                   volume, volume3DTex, transferFunction1DTex,
                   rayVolumeExitPosMapFramebuffer, size, volumeRotAngleX,
                   volumeRotAngleY, viewOffset, lastMousePos, backgroundColor>>
    /\ Repaint

(***************************************************************************)
(* Specifications.  Spec: every handler, pointer events at one position.   *)
(* SpecView: a fixed-size widget, pointer events over ViewPositions.       *)
(* SpecColor: paints over every background colour of Channels.             *)
(* SpecParams: the render-parameter setters over several values.           *)
(* SpecHandlers: every handler, pointer events over HandlerPositions.      *)
(* SpecRotate: rotation drags over RotPositions.                           *)
(* SpecAspect: paints at the sizes of AspectSizes.                         *)
(***************************************************************************)
Next ==
    \/ Paint
    \/ \E v \in Volumes \cup {NULL} : dataLoaded(v)
    \/ \E sz \in Sizes : resizeGL(sz[1], sz[2])
    \/ \E n \in SampleArgs : setNumSamples(n)
    \/ \E v \in RangeArgs : setSampleRangeStart(v)
    \/ \E v \in RangeArgs : setSampleRangeEnd(v)
    \/ setTechnique("MIP")
    \/ \E f \in TfFiles : loadTransferFunctionImage(f)
    \/ \E pos \in Positions : mousePressEvent(pos)
    \/ \E pos \in Positions, left \in BOOLEAN, mods \in Mods :
          mouseMoveEvent(pos, left, mods)
    \/ mouseReleaseEvent

Spec == Init /\ [][Next]_vars
\* SpecView: the widget showing volume-free and volume frames at one size,
\* dragged between the positions of ViewPositions
InitView == InitWith(<<0, 0, 0>>, <<2, 1>>, 8)

NextView ==
    \/ Paint
    \/ dataLoaded("A")
    \/ setNumSamples(8)
    \/ setSampleRangeStart(0)
    \/ setSampleRangeEnd(1)
    \/ setTechnique("MIP")
    \/ loadTransferFunctionImage("../transferfunctions/tff_flame.png")
    \/ \E pos \in ViewPositions : mousePressEvent(pos)
    \/ \E pos \in ViewPositions, left \in BOOLEAN, mods \in Mods :
          mouseMoveEvent(pos, left, mods)
    \/ mouseReleaseEvent

SpecView == InitView /\ [][NextView]_vars

\* SpecColor: paints, with and without a volume, for every background colour
\* with channels in Channels
InitColor ==
    \E r \in Channels, g \in Channels, b \in Channels :
        InitWith(<<r, g, b>>, <<2, 1>>, 8)

NextColor ==
    \/ Paint
    \/ \E v \in Volumes \cup {NULL} : dataLoaded(v)

SpecColor == InitColor /\ [][NextColor]_vars

\* SpecParams: the render-parameter setters over ParamSamples, ParamRanges and
\* Techniques, with and without a volume, while the view is panned
NextParams ==
    \/ Paint
    \/ \E v \in {NULL, "A"} : dataLoaded(v)
    \/ \E n \in ParamSamples : setNumSamples(n)
    \/ \E v \in ParamRanges : setSampleRangeStart(v)
    \/ \E v \in ParamRanges : setSampleRangeEnd(v)
    \/ \E t \in Techniques : setTechnique(t)
    \/ \E pos \in ViewPositions : mousePressEvent(pos)
    \/ \E pos \in ViewPositions : mouseMoveEvent(pos, TRUE, "ctrl")
    \/ mouseReleaseEvent

SpecParams == InitView /\ [][NextParams]_vars

\* SpecHandlers: every handler at one argument each, and pointer events over
\* HandlerPositions with every modifier
NextHandlers ==
    \/ Paint
    \/ \E v \in {NULL, "A"} : dataLoaded(v)
    \/ resizeGL(2, 1)
    \/ setNumSamples(8)
    \/ setSampleRangeStart(0)
    \/ setSampleRangeEnd(1)
    \/ setTechnique("MIP")
    \/ loadTransferFunctionImage("../transferfunctions/tff_flame.png")
    \/ \E pos \in HandlerPositions : mousePressEvent(pos)
    \/ \E pos \in HandlerPositions, left \in BOOLEAN, mods \in Mods :
          mouseMoveEvent(pos, left, mods)
    \/ mouseReleaseEvent

SpecHandlers == InitView /\ [][NextHandlers]_vars

\* SpecRotate: rotation drags between the positions of RotPositions, with and
\* without a volume
NextRotate ==
    \/ Paint
    \/ dataLoaded("A")
    \/ \E pos \in RotPositions : mousePressEvent(pos)
    \/ \E pos \in RotPositions : mouseMoveEvent(pos, TRUE, "none")
    \/ mouseReleaseEvent

SpecRotate == InitView /\ [][NextRotate]_vars

\* SpecAspect: the widget shown and resized at the sizes of AspectSizes
InitAspect == \E sz \in AspectSizes : InitWith(<<0, 0, 0>>, sz, 8)

NextAspect ==
    \/ Paint
    \/ \E v \in Volumes : dataLoaded(v)
    \/ \E sz \in AspectSizes : resizeGL(sz[1], sz[2])

SpecAspect == InitAspect /\ [][NextAspect]_vars

(***************************************************************************)
(* Properties.                                                             *)
(***************************************************************************)
\* The paintGL call logged in f ran the raycasting pass
RaycastRan(f) == \E i \in DOMAIN f.ops : f.ops[i] = <<"draw", "raycast">>
\* The paintGL call logged in f ran the exit-position pass
ExitPassRan(f) == \E i \in DOMAIN f.ops : f.ops[i] = <<"draw", "exit">>
\* f logs a paintGL call (the initial log is empty)
Painted(f) == f.ops /= << >>

\* C1: release restores the sample count n >= 1 that was in effect before the
\* press, when no setNumSamples call came in between.
C1_ReleaseRestoresCount ==
    [][(mouseReleaseEvent /\ pressN /= << >> /\ pressN[1] >= 1)
        => numSamples' = pressN[1]]_vars

\* C2: the numSamples value passed to the raycasting pass is at least 1 at
\* every paint.
C2_PaintSamplesAtLeastOne ==
    RaycastRan(frame) => frame.uniforms.numSamples >= 1

\* C3: dataLoaded with a null volume after a volume was loaded leaves the
\* current volume and its 3D texture as they were.
C3_FailedLoadKeepsVolume ==
    [][(volume /= NULL /\ dataLoaded(NULL))
        => (volume' = volume /\ volume3DTex' = volume3DTex)]_vars

\* C4: the exit-position map's dimensions equal the viewport's in every state
\* (after initialization, after every resize, at every paint).
C4_ExitMapMatchesViewport ==
    rayVolumeExitPosMapFramebuffer = [w |-> size[1], h |-> size[2]]

\* C4 witness: a frame was rendered, then a resize to another size replaced the
\* offscreen target.
C4_Witness ==
    /\ RaycastRan(frame)
    /\ gl.fboContent = Garbage
    /\ frame.uniforms.screenDimensions /= size

\* C5: in a paint that renders a volume the offscreen target is cleared, then
\* drawn by the exit-position pass, then read by the raycasting pass, and what
\* the raycasting pass reads is the exit positions this same paint wrote.
C5_ExitPassPrecedesRaycast ==
    RaycastRan(frame) =>
        /\ frame.exitRead.what = "exit"
        /\ frame.exitRead.by = frame.no
        /\ \E i, j, k \in DOMAIN frame.ops :
              /\ i < j /\ j < k
              /\ frame.ops[i] = <<"clear", "fbo">>
              /\ frame.ops[j] = <<"draw", "exit">>
              /\ frame.ops[k] = <<"draw", "raycast">>
              /\ \A m \in DOMAIN frame.ops :
                    frame.ops[m] = <<"clear", "fbo">> => m < j

\* C5 witness: a second or later paint rendered a volume into a target that
\* already held an earlier frame's exit positions.
C5_Witness ==
    /\ RaycastRan(frame)
    /\ frame.no = 0
    /\ frame.exitRead = gl.fboContent

\* C6: the horizontal-axis angle is in [-90, 90], offset x and y are in [-1, 1]
\* (sixtieths: [-60, 60]) and offset z is in [0.8, 3.0] (fortieths: [32, 120]).
C6_ViewStateBounds ==
    /\ volumeRotAngleX >= -90 /\ volumeRotAngleX <= 90
    /\ viewOffset.x >= -60 /\ viewOffset.x <= 60
    /\ viewOffset.y >= -60 /\ viewOffset.y <= 60
    /\ viewOffset.z >= 32 /\ viewOffset.z <= 120

\* C6 witness: drags have driven the angle, the pan and the zoom to limits.
C6_Witness ==
    /\ volumeRotAngleX = -90
    /\ viewOffset.y = 60
    /\ viewOffset.z = 120

\* clamp(v, lo, hi)
Clamp(v, lo, hi) == IF v < lo THEN lo ELSE IF v > hi THEN hi ELSE v

\* C7: a left-button move with the zoom modifier sets offset.z to
\* clamp(offset.z - dy/40, 0.8, 3.0); from 1.8 and dy = 80 it ends at 0.8.
C7_ZoomStepClamped ==
    [][\A pos \in ViewPositions, mods \in {"alt", "altctrl"} :
          mouseMoveEvent(pos, TRUE, mods) =>
              /\ viewOffset'.z = Clamp(viewOffset.z - (pos.y - lastMousePos.y), 32, 120)
              /\ (viewOffset.z = 72 /\ pos.y - lastMousePos.y = 80)
                     => viewOffset'.z = 32]_vars

\* C7 witness: a zoom drag down by 80 has taken offset.z to 0.8.
C7_Witness ==
    /\ viewOffset.z = 32
    /\ lastMousePos.y = 80
    /\ volumeRotAngleX = 0
    /\ viewOffset.y = 0

\* C8: every paint between a press and its release (no setNumSamples call in
\* between) uses a sample count of at most 5 and never more than the count
\* before the press.
C8_DragPaintsLowSamples ==
    [][(frame'.no /= frame.no /\ RaycastRan(frame') /\ pressed' /\ pressN' /= << >>) =>
          /\ frame'.uniforms.numSamples <= 5
          /\ frame'.uniforms.numSamples <= pressN'[1]]_vars

\* C9: a paint with no current volume only sets the clear colour and clears
\* the visible frame: no pass runs, the offscreen target is not written and no
\* texture is read.
C9_NoVolumePaintOnlyClears ==
    [][(frame'.no /= frame.no /\ volume' = NULL) =>
          /\ frame'.ops = << <<"clearColor">>, <<"clear", "default">> >>
          /\ gl'.fboContent = gl.fboContent
          /\ gl'.screen.what = "clear"
          /\ frame'.exitRead = NotRead
          /\ frame'.texRead = NULL]_vars

\* C9 witness: a volume was loaded and rendered, the volume became null, and a
\* paint then logged a volume-free frame.
C9_Witness ==
    /\ Painted(frame)
    /\ ~RaycastRan(frame)
    /\ volume = NULL
    /\ volume3DTex /= NULL
    /\ gl.fboContent.what = "exit"
    /\ gl.screen.what = "clear"

\* C10: with no volume loaded the frame holds exactly the configured background
\* colour, channel for channel.
C10_BackgroundExact ==
    (Painted(frame) /\ ~RaycastRan(frame)) => gl.screen.pixel = backgroundColor

\* C11: exactly one offscreen target is allocated at any time, the one made by
\* initialization or by the most recent resize.
C11_OneLiveTarget == gl.liveFbos = 1

\* C12: a transfer-function load whose file cannot be read (the empty name of a
\* cancelled dialog included) leaves the previously loaded ramp as the
\* transfer-function texture.
C12_FailedLoadKeepsRamp ==
    [][\A f \in TfFiles \ ReadableFiles :
          loadTransferFunctionImage(f) =>
              transferFunction1DTex' = transferFunction1DTex]_vars

\* What determines a rendering: the volume, the contents of its texture, the
\* render parameters and the view state
RenderState(self) ==
    [volume |-> self.volume, volume3DTex |-> self.volume3DTex,
     numSamples |-> self.numSamples,
     sampleRangeStart |-> self.sampleRangeStart,
     sampleRangeEnd |-> self.sampleRangeEnd, technique |-> self.technique,
     volumeRotAngleX |-> self.volumeRotAngleX,
     volumeRotAngleY |-> self.volumeRotAngleY, viewOffset |-> self.viewOffset]

\* C13: from any state, loading volume a, then b, then a again gives the same
\* rendering-determining state as loading a once, and the same painted frame.
C13_ReloadIdempotent ==
    \A a \in Volumes, b \in Volumes :
        LET once == AfterDataLoaded(Self, a)
            again == AfterDataLoaded(AfterDataLoaded(once, b), a)
        IN  /\ RenderState(again) = RenderState(once)
            /\ paintGL(again, gl, frame) = paintGL(once, gl, frame)

\* C13 witness: volume B was loaded and rendered, and volume A has been loaded
\* over it.
C13_Witness ==
    /\ RaycastRan(frame)
    /\ frame.texRead = "B"
    /\ volume = "A"
    /\ volume3DTex = "A"

ViewState == <<volumeRotAngleX, volumeRotAngleY, viewOffset>>

\* The raycasting pass of the frame f ran with the uniforms of technique t
UsesTechnique(f, t) == f.uniforms = TechniqueUniforms(f.uniforms, t)

\* C14: each render-parameter setter stores its argument in its own parameter,
\* leaves the other three parameters and the view state as they were, and
\* repaints; when a volume is loaded the raycasting pass of that repaint runs
\* with the new value.
C14_SettersIndependent ==
    [][/\ \A n \in ParamSamples :
            setNumSamples(n) =>
                /\ numSamples' = n
                /\ UNCHANGED <<sampleRangeStart, sampleRangeEnd, technique, ViewState>>
                /\ frame'.no /= frame.no
                /\ volume /= NULL =>
                       RaycastRan(frame') /\ frame'.uniforms.numSamples = n
       /\ \A v \in ParamRanges :
            setSampleRangeStart(v) =>
                /\ sampleRangeStart' = v
                /\ UNCHANGED <<numSamples, sampleRangeEnd, technique, ViewState>>
                /\ frame'.no /= frame.no
                /\ volume /= NULL =>
                       RaycastRan(frame') /\ frame'.uniforms.sampleRangeStart = v
       /\ \A v \in ParamRanges :
            setSampleRangeEnd(v) =>
                /\ sampleRangeEnd' = v
                /\ UNCHANGED <<numSamples, sampleRangeStart, technique, ViewState>>
                /\ frame'.no /= frame.no
                /\ volume /= NULL =>
                       RaycastRan(frame') /\ frame'.uniforms.sampleRangeEnd = v
       /\ \A t \in Techniques :
            setTechnique(t) =>
                /\ technique' = t
                /\ UNCHANGED <<numSamples, sampleRangeStart, sampleRangeEnd, ViewState>>
                /\ frame'.no /= frame.no
                /\ volume /= NULL =>
                       RaycastRan(frame') /\ UsesTechnique(frame', t)]_vars

\* C14 witness: with a panned view, a volume and a sample count of 3, the last
\* frame was rendered with the range [1, 1] and the AVERAGE technique, all set
\* by setters.
C14_Witness ==
    /\ RaycastRan(frame)
    /\ frame.uniforms.numSamples = 3
    /\ frame.uniforms.sampleRangeStart = 1
    /\ frame.uniforms.sampleRangeEnd = 1
    /\ frame.uniforms.avgTech
    /\ viewOffset.x /= 0

\* C15: every frame the raycasting pass renders has
\* sampleRangeStart <= sampleRangeEnd.
C15_RangeOrdered ==
    RaycastRan(frame) =>
        frame.uniforms.sampleRangeStart <= frame.uniforms.sampleRangeEnd

\* The view state a left-button move to pos with modifiers mods leads to
ViewAfterMove(pos, left, mods) ==
    MoveView(volumeRotAngleX, volumeRotAngleY, viewOffset,
             pos.x - lastMousePos.x, pos.y - lastMousePos.y, left, mods)

\* What a move may change: nothing without the left button; with it, only
\* viewOffset.z (Alt), only viewOffset.x and viewOffset.y (Ctrl, no Alt), only
\* the two angles (neither)
MoveChangesOwnGroup(pos, left, mods) ==
    LET v == ViewAfterMove(pos, left, mods)
        anglesKept == v.rotX = volumeRotAngleX /\ v.rotY = volumeRotAngleY
    IN  IF ~left THEN anglesKept /\ v.off = viewOffset
        ELSE IF HasAlt(mods)
        THEN anglesKept /\ v.off.x = viewOffset.x /\ v.off.y = viewOffset.y
        ELSE IF HasCtrl(mods) THEN anglesKept /\ v.off.z = viewOffset.z
        ELSE v.off = viewOffset

\* C16: the view state changes only in a mouse move with the left button held
\* (no press, release, move without the left button, setter, load, resize or
\* paint changes it), and a move changes only the group its modifier selects:
\* viewOffset.z with Alt, viewOffset.x and viewOffset.y with Ctrl and no Alt,
\* the two angles with neither.
C16_ViewChangedOnlyByLeftDrag ==
    /\ [](\A pos \in HandlerPositions, left \in BOOLEAN, mods \in Mods :
             MoveChangesOwnGroup(pos, left, mods))
    /\ [][ViewState' /= ViewState =>
             /\ pressed
             /\ numSamples' = LowSamples
             /\ frame'.no /= frame.no
             /\ \E mods \in Mods :
                    LET v == ViewAfterMove(lastMousePos', TRUE, mods)
                    IN  ViewState' = <<v.rotX, v.rotY, v.off>>]_vars

\* C16 witness: after drags of all three kinds, a load, a resize and the
\* release, the angles, the pan and the zoom all differ from their initial
\* values.
C16_Witness ==
    /\ volumeRotAngleX /= 0
    /\ volumeRotAngleY /= 0
    /\ viewOffset.x /= 0
    /\ viewOffset.z /= 72
    /\ gl.liveFbos > 1
    /\ volume /= NULL
    /\ RaycastRan(frame)
    /\ ~pressed

\* C17: a left-button move without modifier by (dx, dy) leaves
\* volumeRotAngleX = clamp(old + dy, -90, 90) and volumeRotAngleY = old + dx,
\* also when the guard skips the increment because the angle is at a limit.
C17_RotateStepClamped ==
    [][\A pos \in RotPositions :
          mouseMoveEvent(pos, TRUE, "none") =>
              /\ volumeRotAngleX' =
                     Clamp(volumeRotAngleX + (pos.y - lastMousePos.y),
                           -RotLimit, RotLimit)
              /\ volumeRotAngleY' = volumeRotAngleY + (pos.x - lastMousePos.x)]_vars

\* C17 witness: three drags by (30, 80) in a row; the third started with the
\* angle at its upper limit, where the guard skips the increment.
C17_Witness ==
    /\ volumeRotAngleX = RotLimit
    /\ volumeRotAngleY = 90
    /\ pressed
    /\ lastMousePos = [x |-> 30, y |-> 80]

\* C18: while the current volume is non-null the 3D texture holds the data
\* uploaded from that volume, and every paint made with a non-null volume runs
\* the raycasting pass reading that volume's texture.
C18_TextureOfCurrentVolume ==
    /\ [](volume /= NULL => volume3DTex = volume)
    /\ [][(frame'.no /= frame.no /\ volume' /= NULL) =>
              /\ RaycastRan(frame')
              /\ frame'.units[3] = volume'
              /\ frame'.texRead = volume']_vars

\* C18 witness: volume B is current and the last frame was raycast from B's
\* texture, into an offscreen target recreated by a resize.
C18_Witness ==
    /\ volume = "B"
    /\ RaycastRan(frame)
    /\ frame.texRead = "B"
    /\ gl.liveFbos > 1

\* C19: in both passes of a rendered frame the aspect given to the projection
\* is floor(width / height): it equals the true ratio exactly when height
\* divides width, and it is 0 when 0 < width < height.
C19_AspectIsFloor ==
    RaycastRan(frame) =>
        \A sh \in {"exit", "raycast"} :
            LET a == frame.mvp[sh].aspect
                w == frame.uniforms.screenDimensions[1]
                h == frame.uniforms.screenDimensions[2]
            IN  /\ a * h <= w
                /\ w < (a + 1) * h
                /\ (a * h = w) <=> (w % h = 0)
                /\ (0 < w /\ w < h) => a = 0

\* C19 witness: a frame rendered at 3 x 2 after a resize, where the true
\* ratio is 1.5 and both passes were given the aspect 1.
C19_Witness ==
    /\ RaycastRan(frame)
    /\ frame.uniforms.screenDimensions = <<3, 2>>
    /\ frame.mvp["exit"].aspect = 1
    /\ frame.mvp["raycast"].aspect = 1
    /\ gl.liveFbos > 1

====
